---------------------------- MODULE Spec2Model ----------------------------
(***************************************************************************)
(* A model of solvedevops/useless-calculator:                              *)
(*   - telemetry.py: TelemetryLogger, which attaches logging handlers to   *)
(*     the three loggers <service>.logs, <service>.metrics and             *)
(*     <service>.traces according to TELEMETRY_MODE;                       *)
(*   - app.py: the four POST handlers /add, /sub, /multi and /divide,      *)
(*     each forwarding two operands to a downstream service with           *)
(*     requests.get and rendering a page from the outcome;                 *)
(*   - app.py: GET /health, which pings the four downstream services.      *)
(***************************************************************************)
EXTENDS Integers, Sequences, FiniteSets, TLC

(***************************************************************************)
(* Bounds of the model.                                                    *)
(***************************************************************************)
\* Largest number of comma-separated entries in TELEMETRY_MODE.
MaxModes == 2
\* Downstream results are drawn from 0..MaxResult.
MaxResult == 2

(***************************************************************************)
(* The records of the model.  Every record below is written with its      *)
(* fields in the order of this section, which is the order TLC keeps       *)
(* them in, so that no worker ever reorders a record another one reads.    *)
(***************************************************************************)
\* A JSON value: the number num, or (deep) num wrapped in nested lists.
ValueType == [deep : BOOLEAN, num : Nat]

\* A response body.
BodyType ==
    [detail : STRING, has_detail : BOOLEAN, has_result : BOOLEAN,
     json_exc : STRING, kind : STRING, result : ValueType]

\* What requests.get does: raises exc, or returns status and body.
DownstreamType == [body : BodyType, exc : STRING, status : Nat]

\* A POST: the route, the two form fields, what the downstream call meets.
RequestType ==
    [downstream : DownstreamType, first : STRING, route : STRING, second : STRING]

\* Records handed to the logs, metrics and traces loggers.
LogRecordType == [error_type : STRING, level : STRING, text : STRING]

MetricRecordType == [operation : STRING, tag : STRING]

TraceRecordType ==
    [result : ValueType, operation : STRING, first_number : Nat, second_number : Nat]

\* What a request has done: calls of requests.get, telemetry calls that
\* raised, records emitted.
EffectsType ==
    [calls : Nat, emit_raised : Nat, logs : Seq(LogRecordType),
     metrics : Seq(MetricRecordType), traces : Seq(TraceRecordType)]

\* The response to a POST.
ResponseType ==
    [status : Nat, answer : ValueType, effects : EffectsType, error : STRING,
     has_answer : BOOLEAN, show : Nat, state : STRING, template : STRING]

\* TELEMETRY_MODE and what backend construction meets.
EnvModeType == [chunks : Seq(STRING), is_set : BOOLEAN]

BackendEnvType == [azure : STRING, cw : Nat, local : Nat]

\* Results of the model's operators: a parsed form field, and the handlers
\* after a configuration step with whether the step raised.
ParsedType == [is_none : BOOLEAN, ok : BOOLEAN, number : Nat]

ConfiguredType == [hs : [{"logs", "metrics", "traces"} -> Seq(STRING)], raised : BOOLEAN]

\* The metrics record and the reply of GET /health, with the pings it sent.
HealthMetricType == [dependencies_healthy : Nat, dependencies_total : Nat]

HealthType ==
    [status : STRING, metrics : Seq(HealthMetricType),
     dependencies : [{"addition-service", "subtraction-service",
                      "multiplication-service", "division-service"} -> STRING],
     pinged : Seq(STRING), service : STRING]

(***************************************************************************)
(* TELEMETRY (telemetry.py)                                                *)
(***************************************************************************)
\* The three loggers, in the order in which every loop of telemetry.py
\* visits them: [self.logs_logger, self.metrics_logger, self.traces_logger].
Channels == <<"logs", "metrics", "traces">>

ChannelSet == {Channels[i] : i \in 1..Len(Channels)}

\* Number of loggers every mode attaches a handler to.
NumChannels == Len(Channels)

\* The text between two commas of TELEMETRY_MODE, as written by an operator:
\* the four names _configure_handler knows, written with padding or in
\* upper case, a name it does not know, and the empty text.
RawModes == {"console", " Local ", "AWS_CloudWatch", "azure_monitor", "local_file", ""}

\* str.strip() on the entries of RawModes.
Strip(s) ==
    IF s = " Local " THEN "Local" ELSE s

\* str.lower() on the stripped entries.
Lower(s) ==
    CASE s = "Local" -> "local"
      [] s = "AWS_CloudWatch" -> "aws_cloudwatch"
      [] OTHER -> s

\* A value of the environment variable TELEMETRY_MODE.  A string with k
\* commas is exactly a sequence of k+1 comma-free chunks, so a set string is
\* held as that non-empty sequence (the empty string is <<"">>).
SeqsUpTo(S, n) == UNION {[1..k -> S] : k \in 1..n}

Unset == [chunks |-> <<>>, is_set |-> FALSE]

EnvModes ==
    {Unset} \cup {[chunks |-> c, is_set |-> TRUE] : c \in SeqsUpTo(RawModes, MaxModes)}

\* What the process finds when it constructs a backend:
\*   azure: "fail" (a step of _add_azure_handler raises), or success with the
\*          root logger holding a handler ("ok_root") or not ("ok_noroot")
\*          when _attach_fallback_loggers asks logger.hasHandlers();
\*   cw:    how many CloudWatchHandlers construct before one raises
\*          (0: boto3 missing or no credentials; NumChannels: none raises);
\*   local: how many RotatingFileHandlers open before one raises
\*          (NumChannels: none raises; 0 also covers service_log_dir.mkdir raising).
BackendEnvs ==
    [azure : {"fail", "ok_root", "ok_noroot"}, cw : 0..NumChannels, local : 0..NumChannels]

NoHandlers == [c \in ChannelSet |-> <<>>]

\* handler attached to the first n loggers, in loop order
AttachFirst(h, kind, n) ==
    [c \in ChannelSet |->
        IF \E i \in 1..n : Channels[i] = c THEN Append(h[c], kind) ELSE h[c]]

\* _add_console_handler
add_console_handler(h) ==
    AttachFirst(h, "console", NumChannels)

\* _add_local_handler: only the creation of /logs is guarded; a failure of
\* service_log_dir.mkdir or of a RotatingFileHandler leaves the method as an
\* exception.  Returns the handlers and whether the call raised.
add_local_handler(h, env) ==
    [hs |-> AttachFirst(h, "file", env.local), raised |-> env.local < NumChannels]

\* (a CloudWatch setup that swallows the failure without the console fallback)
add_cloudwatch_handler_nofallback(h, env) ==
    [hs |-> AttachFirst(h, "cloudwatch", env.cw), raised |-> FALSE]

\* _add_cloudwatch_handler: a handler that fails to construct leaves the
\* loop; the except block then adds the console handler to all three loggers.
add_cloudwatch_handler(h, env) ==
    IF env.cw = NumChannels
    THEN [hs |-> AttachFirst(h, "cloudwatch", NumChannels), raised |-> FALSE]
    ELSE [hs |-> add_console_handler(AttachFirst(h, "cloudwatch", env.cw)),
          raised |-> FALSE]

\* _attach_fallback_loggers: logger.hasHandlers() is true when the logger or
\* an ancestor holds a handler.
attach_fallback_loggers(h, rootHasHandlers) ==
    [c \in ChannelSet |->
        IF h[c] = <<>> /\ ~rootHasHandlers THEN Append(h[c], "console") ELSE h[c]]

\* _add_azure_handler: every step that can raise precedes
\* _attach_fallback_loggers, and the except block adds the console handler.
add_azure_handler(h, env) ==
    IF env.azure = "fail"
    THEN [hs |-> add_console_handler(h), raised |-> FALSE]
    ELSE [hs |-> attach_fallback_loggers(h, env.azure = "ok_root"), raised |-> FALSE]

\* (a dispatch that gives every unknown mode a console handler)
configure_handler_unknown_as_console(h, mode, env) ==
    LET m == Lower(mode) IN
    CASE m = "local" -> add_local_handler(h, env)
      [] m = "aws_cloudwatch" -> add_cloudwatch_handler(h, env)
      [] m = "azure_monitor" -> add_azure_handler(h, env)
      [] OTHER -> [hs |-> add_console_handler(h), raised |-> FALSE]

\* _configure_handler: an unknown mode is skipped with a warning.
configure_handler(h, mode, env) ==
    LET m == Lower(mode) IN
    CASE m = "console" -> [hs |-> add_console_handler(h), raised |-> FALSE]
      [] m = "local" -> add_local_handler(h, env)
      [] m = "aws_cloudwatch" -> add_cloudwatch_handler(h, env)
      [] m = "azure_monitor" -> add_azure_handler(h, env)
      [] OTHER -> [hs |-> h, raised |-> FALSE]

\* self.telemetry_mode: create_telemetry_logger passes no mode, so the
\* environment decides, "console" when the variable is unset.
telemetry_mode_of(envMode) ==
    IF envMode.is_set THEN envMode.chunks ELSE <<"console">>

\* modes = [mode.strip() for mode in self.telemetry_mode.split(',')]
parse_modes(chunks) ==
    [i \in 1..Len(chunks) |-> Strip(chunks[i])]

\* for mode in modes: self._configure_handler(mode) -- an exception leaves the loop
RECURSIVE configure_all(_, _, _, _)
configure_all(h, modes, i, env) ==
    IF i > Len(modes)
    THEN [hs |-> h, raised |-> FALSE]
    ELSE LET r == configure_handler(h, modes[i], env) IN
         IF r.raised THEN r ELSE configure_all(r.hs, modes, i + 1, env)

\* TelemetryLogger.__init__: clears the three loggers, configures every mode,
\* and adds the console handler when the logs logger ended with none.
TelemetryLogger_init(envMode, env) ==
    LET r == configure_all(NoHandlers, parse_modes(telemetry_mode_of(envMode)), 1, env) IN
    IF r.raised THEN r
    ELSE IF r.hs["logs"] = <<>>
         THEN [hs |-> add_console_handler(r.hs), raised |-> FALSE]
         ELSE r

(***************************************************************************)
(* OPERATION PROXY (app.py)                                                *)
(***************************************************************************)
Ops == {"add", "sub", "multi", "divide"}

\* Per route: the template it renders and the operation name it tags its
\* telemetry with.
Template(op) ==
    CASE op = "add" -> "add.html"
      [] op = "sub" -> "sub.html"
      [] op = "multi" -> "multi.html"
      [] op = "divide" -> "divide.html"

OperationName(op) ==
    CASE op = "add" -> "calculator_addition"
      [] op = "sub" -> "calculator_subtraction"
      [] op = "multi" -> "calculator_multiplication"
      [] op = "divide" -> "calculator_division"

MsgBothNumbers == "Please enter both numbers"
MsgTimeout == "Service timeout. Please try again."
MsgUnavailable == "Service unavailable. Please try again later."
MsgError == "An error occurred. Please try again."
MsgInvalidInput == "Invalid input"

\* A form field as posted: not posted at all, posted empty, posted with a
\* text that is no number, or posted with a numeral.
Absent == "<absent>"

RawOperands == {Absent, "", "abc", "0", "5"}

\* `First_Number: float = Form(None)`: an absent or empty field takes the
\* default None, a numeral is converted, and any other text fails the
\* request validation that runs before the handler.
ParseForm(raw) ==
    CASE raw = Absent -> [is_none |-> TRUE, ok |-> TRUE, number |-> 0]
      [] raw = "" -> [is_none |-> TRUE, ok |-> TRUE, number |-> 0]
      [] raw = "0" -> [is_none |-> FALSE, ok |-> TRUE, number |-> 0]
      [] raw = "5" -> [is_none |-> FALSE, ok |-> TRUE, number |-> 5]
      [] OTHER -> [is_none |-> FALSE, ok |-> FALSE, number |-> 0]

\* A JSON value a downstream service answers with: the number num, or
\* (deep) num wrapped in lists nested so far that response.json() still
\* parses it while json.dumps(trace_data), which nests it two levels further
\* and runs deeper in the call stack, raises RecursionError.
FlatValues == [deep : {FALSE}, num : 0..MaxResult]

DeepValues == [deep : {TRUE}, num : 0..MaxResult]

NoValue == [deep |-> FALSE, num |-> 0]

\* Response bodies: a JSON object with a result field, with a detail field,
\* with neither; a JSON value that is no object; a body that is no JSON, for
\* which response.json() raises requests' JSONDecodeError (a
\* RequestException) or, with requests before 2.27, a plain ValueError.
ObjResult(v) ==
    [detail |-> "", has_detail |-> FALSE, has_result |-> TRUE,
     json_exc |-> "none", kind |-> "object", result |-> v]

ObjDetail(d) ==
    [detail |-> d, has_detail |-> TRUE, has_result |-> FALSE,
     json_exc |-> "none", kind |-> "object", result |-> NoValue]

ObjEmpty ==
    [detail |-> "", has_detail |-> FALSE, has_result |-> FALSE,
     json_exc |-> "none", kind |-> "object", result |-> NoValue]

BareValue(v) ==
    [detail |-> "", has_detail |-> FALSE, has_result |-> FALSE,
     json_exc |-> "none", kind |-> "value", result |-> v]

NotJson(e) ==
    [detail |-> "", has_detail |-> FALSE, has_result |-> FALSE,
     json_exc |-> e, kind |-> "invalid", result |-> NoValue]

Details == {"Cannot divide by zero", "Operands out of range"}

BodiesOver(V) ==
    {ObjResult(v) : v \in V} \cup {BareValue(v) : v \in V}
        \cup {ObjDetail(d) : d \in Details} \cup {ObjEmpty}
        \cup {NotJson(e) : e \in {"JSONDecodeError", "ValueError"}}

\* Status codes requests.get hands back: 300 stands for a 3xx answer that
\* requests does not follow (no Location header, or 300, 304).
Statuses == {200, 300, 400, 500}

\* What requests.get(endpoint, params, timeout=5) does: raises (exc), or
\* returns a response with a status and a body.
Raises(e) == [body |-> ObjEmpty, exc |-> e, status |-> 0]

ResponsesOver(V) ==
    {Raises(e) : e \in {"Timeout", "ConnectionError", "MissingSchema"}}
        \cup {[body |-> b, exc |-> "none", status |-> s] : b \in BodiesOver(V), s \in Statuses}

Responses == ResponsesOver(FlatValues)

DeepResponses ==
    {[body |-> ObjResult(v), exc |-> "none", status |-> 200] : v \in DeepValues}

\* The exception classes of the model and the two classes the handlers name.
IsTimeout(e) == e = "Timeout"

IsRequestException(e) ==
    e \in {"Timeout", "ConnectionError", "MissingSchema", "HTTPError", "JSONDecodeError"}

\* A request that has done nothing yet.
NoEffects ==
    [calls |-> 0, emit_raised |-> 0, logs |-> <<>>, metrics |-> <<>>, traces |-> <<>>]

\* logger.info / logger.error, and the record of log_error_with_trace
LogLine(E, level, text, etype) ==
    [E EXCEPT !.logs = Append(@, [error_type |-> etype, level |-> level, text |-> text])]

\* TelemetryLogger.log_metrics: the handlers' metrics hold strings, booleans
\* and floats only, which json.dumps always encodes.
log_metrics(E, operation, tag) ==
    [E EXCEPT !.metrics = Append(@, [operation |-> operation, tag |-> tag])]

\* (a trace whose metadata leaves the result out)
log_trace_without_result(E, operation, a, b, answer) ==
    IF answer.deep
    THEN [exc |-> "RecursionError", eff |-> [E EXCEPT !.emit_raised = @ + 1]]
    ELSE [exc |-> "none",
          eff |-> [E EXCEPT !.traces = Append(@,
                      [result |-> NoValue, operation |-> operation,
                       first_number |-> a, second_number |-> b])]]

\* TelemetryLogger.log_trace: json.dumps(trace_data) is not guarded.
log_trace(E, operation, a, b, answer) ==
    IF answer.deep
    THEN [exc |-> "RecursionError", eff |-> [E EXCEPT !.emit_raised = @ + 1]]
    ELSE [exc |-> "none",
          eff |-> [E EXCEPT !.traces = Append(@,
                      [result |-> answer, operation |-> operation,
                       first_number |-> a, second_number |-> b])]]

\* TelemetryLogger.log_error_with_trace
log_error_with_trace(E, e) ==
    LogLine(E, "ERROR", "ERROR_TRACE", e)

\* response.raise_for_status()
raise_for_status(status) ==
    IF status >= 400 /\ status < 600 THEN "HTTPError" ELSE "none"

\* (a handler that re-validates the value, capping it, instead of passing it on)
extract_answer_revalidated(body) ==
    IF body.kind = "object" /\ ~body.has_result
    THEN [exc |-> "KeyError", answer |-> NoValue]
    ELSE [exc |-> "none",
          answer |-> [body.result EXCEPT !.num = IF @ > 1 THEN 1 ELSE @]]

\* answer = result["result"] if isinstance(result, dict) else result
extract_answer(body) ==
    IF body.kind = "object"
    THEN IF body.has_result
         THEN [exc |-> "none", answer |-> body.result]
         ELSE [exc |-> "KeyError", answer |-> NoValue]
    ELSE [exc |-> "none", answer |-> body.result]

\* templates.TemplateResponse(...): the page a handler returns, with how the
\* request ended.
Page(op, state, show, error, hasAnswer, answer, E) ==
    [status |-> 200, answer |-> answer, effects |-> E, error |-> error,
     has_answer |-> hasAnswer, show |-> show, state |-> state,
     template |-> Template(op)]

\* An exception leaving the try block.
Raised(e, E) ==
    [exc |-> e, effects |-> E, state |-> "raised"]

\* (a handler that shows its own message instead of the downstream detail)
error_detail_generic(body) ==
    IF body.kind = "invalid" THEN [detail |-> "", exc |-> body.json_exc]
    ELSE IF body.kind # "object" THEN [detail |-> "", exc |-> "AttributeError"]
    ELSE [detail |-> MsgInvalidInput, exc |-> "none"]

\* error_detail = response.json().get("detail", "Invalid input")
error_detail(body) ==
    IF body.kind = "invalid" THEN [detail |-> "", exc |-> body.json_exc]
    ELSE IF body.kind # "object" THEN [detail |-> "", exc |-> "AttributeError"]
    ELSE [detail |-> IF body.has_detail THEN body.detail ELSE MsgInvalidInput,
          exc |-> "none"]

\* The part of the try block after requests.get returned a response that
\* passed raise_for_status.
try_success(op, a, b, resp, E) ==
    IF resp.body.kind = "invalid" THEN Raised(resp.body.json_exc, E)
    ELSE LET x == extract_answer(resp.body) IN
         IF x.exc # "none" THEN Raised(x.exc, E)
         ELSE LET t == log_trace(E, OperationName(op), a, b, x.answer) IN
              IF t.exc # "none" THEN Raised(t.exc, t.eff)
              ELSE Page(op, "Succeeded", 1, "", TRUE, x.answer,
                        log_metrics(t.eff, OperationName(op), "success"))

\* The try block of a handler.  Only perform_division looks at status 400
\* before raise_for_status.
try_block(op, a, b, resp) ==
    LET E1 == [LogLine(NoEffects, "INFO", "Performing", "") EXCEPT !.calls = @ + 1] IN
    IF resp.exc # "none" THEN Raised(resp.exc, E1)
    ELSE IF op = "divide" /\ resp.status = 400
    THEN LET d == error_detail(resp.body) IN
         IF d.exc # "none" THEN Raised(d.exc, E1)
         ELSE Page(op, "ValidationFailed", 0, d.detail, FALSE, NoValue,
                   log_metrics(E1, OperationName(op), "validation_error"))
    ELSE IF raise_for_status(resp.status) # "none"
    THEN Raised(raise_for_status(resp.status), E1)
    ELSE try_success(op, a, b, resp, E1)

\* (the except clauses with RequestException written before Timeout)
except_clause_reordered(e) ==
    IF IsRequestException(e) THEN "RequestException"
    ELSE IF IsTimeout(e) THEN "Timeout"
    ELSE "Exception"

\* Which except clause takes an exception: the clauses are tried in the
\* order written, Timeout, RequestException, Exception.
except_clause(e) ==
    IF IsTimeout(e) THEN "Timeout"
    ELSE IF IsRequestException(e) THEN "RequestException"
    ELSE "Exception"

\* The three except blocks.
handle_exception(op, e, E) ==
    CASE except_clause(e) = "Timeout" ->
            Page(op, "TimedOut", 0, MsgTimeout, FALSE, NoValue,
                 log_metrics(LogLine(E, "ERROR", "timeout", ""), OperationName(op), "timeout"))
      [] except_clause(e) = "RequestException" ->
            Page(op, "Unavailable", 0, MsgUnavailable, FALSE, NoValue,
                 log_error_with_trace(LogLine(E, "ERROR", "service error", ""), e))
      [] OTHER ->
            Page(op, "Failed", 0, MsgError, FALSE, NoValue,
                 log_error_with_trace(LogLine(E, "ERROR", "unexpected error", ""), e))

\* (a handler whose except blocks call requests.get once more)
guarded_call_retrying(op, a, b, resp) ==
    LET t == try_block(op, a, b, resp) IN
    IF t.state = "raised"
    THEN LET p == handle_exception(op, t.exc, t.effects) IN
         [p EXCEPT !.effects.calls = @ + 1]
    ELSE t

\* try ... except of a handler.
guarded_call(op, a, b, resp) ==
    LET t == try_block(op, a, b, resp) IN
    IF t.state = "raised" THEN handle_exception(op, t.exc, t.effects) ELSE t

\* (the test written `if not First_Number or not Second_Number`)
missing_operand_falsy(p1, p2) ==
    \/ p1.is_none \/ p1.number = 0
    \/ p2.is_none \/ p2.number = 0

\* if First_Number is None or Second_Number is None: the early return.
missing_operand(p1, p2) ==
    p1.is_none \/ p2.is_none

\* FastAPI answers a request whose form fails validation itself, with
\* status 422 and a JSON body; the handler does not run.
Unprocessable ==
    [status |-> 422, answer |-> NoValue, effects |-> NoEffects, error |-> "",
     has_answer |-> FALSE, show |-> 0, state |-> "Rejected", template |-> "none"]

\* One POST, from the posted form to the response.
post(op, first, second, resp) ==
    LET p1 == ParseForm(first)
        p2 == ParseForm(second) IN
    IF ~p1.ok \/ ~p2.ok THEN Unprocessable
    ELSE IF missing_operand(p1, p2)
    THEN Page(op, "ValidationFailed", 0, MsgBothNumbers, FALSE, NoValue, NoEffects)
    ELSE guarded_call(op, p1.number, p2.number, resp)

perform_addition(first, second, resp) == post("add", first, second, resp)

perform_subtraction(first, second, resp) == post("sub", first, second, resp)

perform_multiplication(first, second, resp) == post("multi", first, second, resp)

perform_division(first, second, resp) == post("divide", first, second, resp)

(***************************************************************************)
(* HEALTH CHECK (app.py)                                                   *)
(***************************************************************************)
\* The services list of health_check, in the order the loop visits it.
Services ==
    <<"addition-service", "subtraction-service", "multiplication-service",
      "division-service">>

ServiceSet == {Services[i] : i \in 1..Len(Services)}

\* The service whose endpoint a POST handler calls.
ServiceOf(op) ==
    CASE op = "add" -> "addition-service"
      [] op = "sub" -> "subtraction-service"
      [] op = "multi" -> "multiplication-service"
      [] OTHER -> "division-service"

\* What requests.get(f"{endpoint}/health", timeout=2) does: raises, or
\* returns a response with a status; the body is not read.
PingResults ==
    {Raises(e) : e \in {"Timeout", "ConnectionError"}}
        \cup {[body |-> ObjEmpty, exc |-> "none", status |-> s] : s \in {200, 503}}

\* dependencies = {...: "unknown"}, before the loop.
NoHealth ==
    [status |-> "none", metrics |-> <<>>,
     dependencies |-> [s \in ServiceSet |-> "unknown"], pinged |-> <<>>,
     service |-> "none"]

\* (a check that compares the status code with the text "200")
dependency_status_text_compare(configured, ping) ==
    IF ~configured THEN "not_configured"
    ELSE IF ping.exc # "none" THEN "unreachable"
    ELSE "unhealthy"

\* The body of the loop: the entry written for one service.
dependency_status(configured, ping) ==
    IF ~configured THEN "not_configured"
    ELSE IF ping.exc # "none" THEN "unreachable"
    ELSE IF ping.status = 200 THEN "healthy" ELSE "unhealthy"

\* (a loop inside one try block: the first ping that raises ends it)
RECURSIVE ping_all_one_try(_, _, _, _)
ping_all_one_try(i, configured, pings, h) ==
    IF i > Len(Services) THEN h
    ELSE LET s == Services[i] IN
         IF s \in configured /\ pings[s].exc # "none"
         THEN [h EXCEPT !.dependencies[s] = "unreachable", !.pinged = Append(@, s)]
         ELSE ping_all_one_try(i + 1, configured, pings,
                  [h EXCEPT !.dependencies[s] = dependency_status(s \in configured, pings[s]),
                            !.pinged = IF s \in configured THEN Append(@, s) ELSE @])

\* for service_name, endpoint in services: from entry i on.
RECURSIVE ping_all(_, _, _, _)
ping_all(i, configured, pings, h) ==
    IF i > Len(Services) THEN h
    ELSE LET s == Services[i] IN
         ping_all(i + 1, configured, pings,
             [h EXCEPT !.dependencies[s] = dependency_status(s \in configured, pings[s]),
                       !.pinged = IF s \in configured THEN Append(@, s) ELSE @])

\* health_check(): the loop, one metrics record, the reply.
health_check(configured, pings) ==
    LET h == ping_all(1, configured, pings, NoHealth)
        healthy == {s \in ServiceSet : h.dependencies[s] = "healthy"} IN
    [status |-> "healthy",
     metrics |-> <<[dependencies_healthy |-> Cardinality(healthy),
                    dependencies_total |-> Len(Services)]>>,
     dependencies |-> h.dependencies, pinged |-> h.pinged,
     service |-> "useless-calculator"]

(***************************************************************************)
(* STATE                                                                   *)
(***************************************************************************)
VARIABLES
    env_mode,      \* TELEMETRY_MODE as the process finds it
    backend_env,   \* what backend construction meets (BackendEnvs)
    handlers,      \* handlers[c]: the handlers attached to logger c, in order
    tstate,        \* "unbuilt" | "ready" | "crashed" (the constructor raised)
    request,       \* the request being answered: route, form fields, what
                   \* requests.get meets; route "none" when there is none
    response,      \* the response to it (a Page, or Unprocessable)
    endpoints,     \* the services whose endpoint variable is set
    pings,         \* what the pings of the last GET /health met
    health         \* the reply to the last GET /health (NoHealth: none yet)

vars ==
    <<env_mode, backend_env, handlers, tstate, request, response, endpoints,
      pings, health>>

tvars == <<env_mode, backend_env, handlers, tstate>>

pvars == <<request, response>>

hvars == <<pings, health>>

AllAvailable == [azure |-> "ok_noroot", cw |-> NumChannels, local |-> NumChannels]

NoRequest ==
    [downstream |-> Raises("none"), first |-> Absent, route |-> "none", second |-> Absent]

NoResponse ==
    [status |-> 0, answer |-> NoValue, effects |-> NoEffects, error |-> "",
     has_answer |-> FALSE, show |-> 0, state |-> "none", template |-> "none"]

NoPings == [s \in ServiceSet |-> Raises("none")]

TypeOK ==
    /\ endpoints \subseteq ServiceSet
    /\ pings \in [ServiceSet -> DownstreamType]
    /\ health \in HealthType
    /\ env_mode \in EnvModeType
    /\ backend_env \in BackendEnvType
    /\ handlers \in [ChannelSet -> Seq(STRING)]
    /\ tstate \in {"unbuilt", "ready", "crashed"}
    /\ request \in RequestType
    /\ response \in ResponseType

\* Before app.py line 13 runs.
InitSelector ==
    /\ env_mode = Unset
    /\ backend_env = AllAvailable
    /\ handlers = NoHandlers
    /\ tstate = "unbuilt"
    /\ request = NoRequest
    /\ response = NoResponse
    /\ endpoints = ServiceSet
    /\ pings = NoPings
    /\ health = NoHealth

\* create_telemetry_logger(service_name): one whole construction.
CreateTelemetryLogger ==
    /\ tstate = "unbuilt"
    /\ \E m \in EnvModes, e \in BackendEnvs :
        LET r == TelemetryLogger_init(m, e) IN
        /\ env_mode' = m
        /\ backend_env' = e
        /\ handlers' = r.hs
        /\ tstate' = IF r.raised THEN "crashed" ELSE "ready"
    /\ UNCHANGED <<pvars, endpoints, hvars>>

NextSelector == CreateTelemetryLogger

SpecSelector == InitSelector /\ [][NextSelector]_vars

\* The serving process: app.py was imported, so the telemetry handle exists
\* (here with every backend available and at most one mode configured) and
\* the four endpoint variables were read (here all of them set, or none).
Init ==
    /\ env_mode \in {m \in EnvModes : Len(m.chunks) <= 1}
    /\ backend_env = AllAvailable
    /\ handlers = TelemetryLogger_init(env_mode, backend_env).hs
    /\ tstate = "ready"
    /\ request = NoRequest
    /\ response = NoResponse
    /\ endpoints \in {ServiceSet, {}}
    /\ pings = NoPings
    /\ health = NoHealth

\* What requests.get can meet for a handler: with the endpoint unset the
\* URL is None, which requests rejects ("No scheme supplied") before it
\* sends anything.
Meets(op, R) ==
    IF ServiceOf(op) \in endpoints THEN R ELSE {Raises("MissingSchema")}

Serve(op, first, second, resp, page) ==
    /\ tstate = "ready"
    /\ request.route = "none"
    /\ request' = [downstream |-> resp, first |-> first, route |-> op, second |-> second]
    /\ response' = page
    /\ UNCHANGED <<tvars, endpoints, hvars>>

PerformAddition ==
    \E first \in RawOperands, second \in RawOperands,
       resp \in Meets("add", Responses) :
        Serve("add", first, second, resp, perform_addition(first, second, resp))

PerformSubtraction ==
    \E first \in RawOperands, second \in RawOperands,
       resp \in Meets("sub", Responses) :
        Serve("sub", first, second, resp, perform_subtraction(first, second, resp))

PerformMultiplication ==
    \E first \in RawOperands, second \in RawOperands,
       resp \in Meets("multi", Responses) :
        Serve("multi", first, second, resp, perform_multiplication(first, second, resp))

PerformDivision ==
    \E first \in RawOperands, second \in RawOperands,
       resp \in Meets("divide", Responses) :
        Serve("divide", first, second, resp, perform_division(first, second, resp))

\* Request and outcome are discarded once the response is sent.
Discard ==
    /\ request.route # "none"
    /\ request' = NoRequest
    /\ response' = NoResponse
    /\ UNCHANGED <<tvars, endpoints, hvars>>

Next ==
    \/ PerformAddition
    \/ PerformSubtraction
    \/ PerformMultiplication
    \/ PerformDivision
    \/ Discard

Spec == Init /\ [][Next]_vars

\* The same process, with downstream services that may also answer with a
\* result nested too deep for json.dumps in log_trace.
PerformWithDeepResult ==
    \E op \in {o \in Ops : ServiceOf(o) \in endpoints},
       first \in RawOperands, second \in RawOperands, resp \in DeepResponses :
        Serve(op, first, second, resp, post(op, first, second, resp))

NextDeep ==
    \/ Next
    \/ PerformWithDeepResult

SpecDeep == Init /\ [][NextDeep]_vars

\* The same process with any of the endpoint variables set, answering
\* GET /health.
InitHealth ==
    /\ env_mode = Unset
    /\ backend_env = AllAvailable
    /\ handlers = TelemetryLogger_init(env_mode, backend_env).hs
    /\ tstate = "ready"
    /\ request = NoRequest
    /\ response = NoResponse
    /\ endpoints \in SUBSET ServiceSet
    /\ pings = NoPings
    /\ health = NoHealth

\* GET /health: a ping meets something only where one is sent.
HealthCheck ==
    /\ tstate = "ready"
    /\ \E p \in [ServiceSet -> PingResults \cup {Raises("none")}] :
        /\ \A s \in ServiceSet : p[s] = Raises("none") <=> s \notin endpoints
        /\ pings' = p
        /\ health' = health_check(endpoints, p)
    /\ UNCHANGED <<tvars, pvars, endpoints>>

NextHealth == HealthCheck

SpecHealth == InitHealth /\ [][NextHealth]_vars

(***************************************************************************)
(* PROPERTIES                                                              *)
(***************************************************************************)
Answered == request.route \in Ops

\* The posted field holds a numeral.
IsNumeral(raw) == raw \in {"0", "5"}

BothNumerals == IsNumeral(request.first) /\ IsNumeral(request.second)

\* requests.get returned a 2xx response whose body is {"result": r}.
SuccessPayload ==
    /\ request.downstream.exc = "none"
    /\ request.downstream.status = 200
    /\ request.downstream.body.kind = "object"
    /\ request.downstream.body.has_result

\* C1: on every route, a request with an operand that is missing or is not
\* a number ends with "Please enter both numbers" and without a call to the
\* downstream service.
C1_MissingOrUnparseableOperand ==
    (Answered /\ ~BothNumerals) =>
        /\ response.error = MsgBothNumbers
        /\ response.effects.calls = 0

C3_DivideSurfacesDetail ==
    (/\ request.route = "divide"
     /\ BothNumerals
     /\ request.downstream.exc = "none"
     /\ request.downstream.status = 400
     /\ request.downstream.body.kind = "object"
     /\ request.downstream.body.has_detail) =>
        /\ response.state = "ValidationFailed"
        /\ response.error = request.downstream.body.detail
        /\ ~response.has_answer

C3_Witness ==
    /\ request.route = "divide"
    /\ request.second = "0"
    /\ request.downstream.status = 400
    /\ request.downstream.body.has_detail
    /\ response.error = "Cannot divide by zero"

TimeoutMetrics ==
    {i \in 1..Len(response.effects.metrics) : response.effects.metrics[i].tag = "timeout"}

\* C4: on every route, a timed-out call ends the request TimedOut with the
\* "Service timeout" message and exactly one metrics record tagged timeout,
\* and never as Unavailable.
C4_TimeoutIsTimedOut ==
    (Answered /\ BothNumerals /\ request.downstream.exc = "Timeout") =>
        /\ response.state = "TimedOut"
        /\ response.state # "Unavailable"
        /\ response.error = MsgTimeout
        /\ Cardinality(TimeoutMetrics) = 1
        /\ \A i \in TimeoutMetrics :
              response.effects.metrics[i].operation = OperationName(request.route)

C4_Witness ==
    /\ request.route = "multi"
    /\ BothNumerals
    /\ request.downstream.exc = "Timeout"
    /\ response.state = "TimedOut"
    /\ Len(response.effects.metrics) = 1

\* C5: a request makes at most one call to the downstream service, however
\* it ends.
C5_AtMostOneCall ==
    response.effects.calls <= 1

\* A request that failed after its one call.
C5_Witness ==
    /\ Answered
    /\ response.state \in {"Unavailable", "Failed", "TimedOut"}
    /\ response.effects.calls = 1

AllConsole == [c \in ChannelSet |-> <<"console">>]

\* C6: once the telemetry logger is constructed, each of the three loggers
\* holds at least one handler, whatever the mode list and however the cloud
\* backends failed.
C6_EveryChannelHasHandler ==
    tstate = "ready" => \A c \in ChannelSet : handlers[c] # <<>>

\* CloudWatch configured, its second handler failing to construct.
C6_Witness ==
    /\ tstate = "ready"
    /\ env_mode.is_set
    /\ \E i \in 1..Len(env_mode.chunks) : env_mode.chunks[i] = "AWS_CloudWatch"
    /\ \A i \in 1..Len(env_mode.chunks) : env_mode.chunks[i] # "console"
    /\ backend_env.cw = 1
    /\ \A c \in ChannelSet : handlers[c] # <<>>

\* An entry of TELEMETRY_MODE that names none of the four modes.
Unrecognized(chunk) == chunk \in {"local_file", ""}

OnlyUnrecognized ==
    env_mode.is_set /\ \A i \in 1..Len(env_mode.chunks) : Unrecognized(env_mode.chunks[i])

\* C7: with only unrecognized modes, and with no mode configured, every
\* logger ends with exactly one console handler and nothing else.
C7_UnrecognizedFallsBackToConsole ==
    (tstate = "ready" /\ (OnlyUnrecognized \/ ~env_mode.is_set)) => handlers = AllConsole

C7_Witness ==
    /\ tstate = "ready"
    /\ env_mode.is_set
    /\ env_mode.chunks = <<"local_file", "">>
    /\ handlers = AllConsole

HasChunk(chunk) ==
    env_mode.is_set /\ \E i \in 1..Len(env_mode.chunks) : env_mode.chunks[i] = chunk

\* The construction of some configured backend fails.
SomeBackendFails ==
    \/ HasChunk(" Local ") /\ backend_env.local < NumChannels
    \/ HasChunk("AWS_CloudWatch") /\ backend_env.cw < NumChannels
    \/ HasChunk("azure_monitor") /\ backend_env.azure = "fail"

\* C8: whichever configured backend fails to construct (local file,
\* CloudWatch, Azure Monitor), also after some loggers got their handler,
\* the constructor completes, returns a handle, and the console handler is
\* attached.
C8_BackendFailureFallsBackToConsole ==
    (tstate # "unbuilt" /\ SomeBackendFails) =>
        /\ tstate = "ready"
        /\ \A c \in ChannelSet : \E i \in 1..Len(handlers[c]) : handlers[c][i] = "console"

\* C9: every request that does not succeed is answered with a rendered page
\* and status 200.
C9_FailuresRenderPage ==
    (Answered /\ response.state # "Succeeded") =>
        /\ response.status = 200
        /\ response.template = Template(request.route)

\* C10: a failing telemetry emission never raises into the handler and
\* never changes the page: a request whose downstream call succeeded still
\* shows the result.
C10_EmissionFailureInvisible ==
    /\ response.effects.emit_raised = 0
    /\ (Answered /\ BothNumerals /\ SuccessPayload) =>
            (response.state = "Succeeded" /\ response.has_answer)

\* A GET /health was answered.
HealthAnswered == health.status # "none"

PingOk(s) == pings[s].exc = "none" /\ pings[s].status = 200

\* C11: when all four downstream pings return status 200, GET /health
\* answers with status "healthy" and marks all four dependencies "healthy".
C11_AllPingsOkIsHealthy ==
    (HealthAnswered /\ \A s \in ServiceSet : PingOk(s)) =>
        /\ health.status = "healthy"
        /\ \A s \in ServiceSet : health.dependencies[s] = "healthy"

C11_Witness ==
    /\ HealthAnswered
    /\ \A s \in ServiceSet : PingOk(s)
    /\ health.pinged = Services
    /\ health.dependencies["division-service"] = "healthy"

\* requests.get returned status 400 with a body {"detail": d}.
Detail400 ==
    /\ request.downstream.exc = "none"
    /\ request.downstream.status = 400
    /\ request.downstream.body.kind = "object"
    /\ request.downstream.body.has_detail

\* C12: on every route alike, a downstream 400 whose body has a detail
\* field ends the request ValidationFailed with that detail, word for word,
\* as the error message, never with a generic message.
C12_EveryRouteSurfacesDetail ==
    (Answered /\ BothNumerals /\ Detail400) =>
        /\ response.state = "ValidationFailed"
        /\ response.error = request.downstream.body.detail
        /\ response.error \notin {MsgUnavailable, MsgError, MsgInvalidInput}

\* How a request ended: by the early return on a missing operand, or after
\* the downstream call.
EndedByShortcut ==
    response.state = "ValidationFailed" /\ response.effects.calls = 0

EndedAfterDispatch ==
    \/ response.state \in {"Succeeded", "TimedOut", "Unavailable", "Failed"}
    \/ response.state = "ValidationFailed" /\ response.effects.calls = 1

\* C13: a request that ends Succeeded, ValidationFailed on a downstream 400,
\* TimedOut, Unavailable or Failed has emitted exactly one metrics record;
\* a request that ends on the missing-operand early return has emitted none.
C13_OneMetricsRecordPerDispatch ==
    Answered =>
        /\ EndedAfterDispatch => Len(response.effects.metrics) = 1
        /\ EndedByShortcut => Len(response.effects.metrics) = 0

\* C14: a request that ends Succeeded has emitted exactly one trace record,
\* whose metadata are the two operands and the result; a request that ends
\* in any other way has emitted none.
C14_OneTraceIffSucceeded ==
    Answered =>
        IF response.state = "Succeeded"
        THEN /\ Len(response.effects.traces) = 1
             /\ response.effects.traces[1].first_number = ParseForm(request.first).number
             /\ response.effects.traces[1].second_number = ParseForm(request.second).number
             /\ response.effects.traces[1].result = response.answer
             /\ response.effects.traces[1].operation = OperationName(request.route)
        ELSE response.effects.traces = <<>>

C14_Witness ==
    /\ request.route = "sub"
    /\ request.first = "5"
    /\ request.second = "0"
    /\ response.state = "Succeeded"
    /\ Len(response.effects.traces) = 1
    /\ response.effects.traces[1].first_number = 5
    /\ response.effects.traces[1].second_number = 0
    /\ response.effects.traces[1].result.num = MaxResult

\* The records of log_error_with_trace on the logs logger, which carry the
\* exception's class, its message and its traceback; and all ERROR records.
ErrorTraces ==
    {i \in 1..Len(response.effects.logs) : response.effects.logs[i].text = "ERROR_TRACE"}

ErrorRecords ==
    {i \in 1..Len(response.effects.logs) : response.effects.logs[i].level = "ERROR"}

\* C15: a request that ends TimedOut, Unavailable or Failed has emitted one
\* error record on the logs logger that captures the failure (its kind, its
\* message, its stack); a request that ends Succeeded or ValidationFailed
\* has emitted no error record.
C15_FailuresLogErrorTrace ==
    Answered =>
        /\ response.state \in {"TimedOut", "Unavailable", "Failed"} =>
              /\ Cardinality(ErrorTraces) = 1
              /\ \A i \in ErrorTraces : response.effects.logs[i].error_type # ""
        /\ response.state \in {"Succeeded", "ValidationFailed"} => ErrorRecords = {}

\* The downstream call failed at the network level other than by a timeout:
\* the connection failed, the endpoint is unset or no URL, or the status is
\* outside 2xx and is not the 400 that /divide reads as a validation failure.
NetworkFailure ==
    \/ request.downstream.exc \in {"ConnectionError", "MissingSchema"}
    \/ /\ request.downstream.exc = "none"
       /\ request.downstream.status \notin 200..299
       /\ ~(request.route = "divide" /\ request.downstream.status = 400)

\* C16: on every route, a network-level failure of the downstream call that
\* is no timeout ends the request Unavailable with the "Service unavailable"
\* message, never Failed and never Succeeded.
C16_NetworkFailureIsUnavailable ==
    (Answered /\ BothNumerals /\ NetworkFailure) =>
        /\ response.state = "Unavailable"
        /\ response.error = MsgUnavailable

\* requests.get returned status 200 with a body that is no JSON, or with a
\* JSON object without a result field.
UnusablePayload ==
    /\ request.downstream.exc = "none"
    /\ request.downstream.status = 200
    /\ \/ request.downstream.body.kind = "invalid"
       \/ request.downstream.body.kind = "object" /\ ~request.downstream.body.has_result

BareScalarPayload ==
    /\ request.downstream.exc = "none"
    /\ request.downstream.status = 200
    /\ request.downstream.body.kind = "value"

\* C17: on every route, a 2xx response whose body does not parse, or parses
\* to an object without a result field, ends the request Failed with the
\* "An error occurred" message and no result; a body that is a bare scalar
\* is taken as the result.
C17_UnusablePayloadIsFailed ==
    (Answered /\ BothNumerals) =>
        /\ UnusablePayload =>
              /\ response.state = "Failed"
              /\ response.error = MsgError
              /\ ~response.has_answer
        /\ BareScalarPayload =>
              /\ response.state = "Succeeded"
              /\ response.answer = request.downstream.body.result

\* C18: on every route, a request whose operands are both present, one or
\* both of them zero, makes exactly one call to the downstream service and
\* is not answered as a request with a missing operand.
C18_ZeroOperandIsDispatched ==
    (Answered /\ BothNumerals /\ (request.first = "0" \/ request.second = "0")) =>
        /\ response.effects.calls = 1
        /\ response.error # MsgBothNumbers
        /\ ~EndedByShortcut

\* 0 / 0 sent to the division service, which answers with a result.
C18_Witness ==
    /\ request.route = "divide"
    /\ request.first = "0"
    /\ request.second = "0"
    /\ response.effects.calls = 1
    /\ response.state = "Succeeded"

\* C19: once the telemetry logger is constructed, the three loggers hold the
\* same sequence of handler kinds, whatever the mode list and wherever a
\* backend failed.
C19_ChannelsUniform ==
    tstate = "ready" => \A c \in ChannelSet : handlers[c] = handlers["logs"]

\* The entry health_check owes a service, from that service's ping alone.
OwnStatus(s) ==
    CASE s \notin endpoints -> "not_configured"
      [] s \in endpoints /\ pings[s].exc # "none" -> "unreachable"
      [] s \in endpoints /\ PingOk(s) -> "healthy"
      [] OTHER -> "unhealthy"

\* C20: whatever the four pings meet, GET /health reports each dependency
\* by its own ping alone (healthy on 200, unhealthy on another status,
\* unreachable when the ping raises, not_configured when the endpoint is
\* unset, and then without a ping), pings every configured service even
\* after a failed ping, leaves no entry "unknown", and answers with status
\* "healthy".
C20_HealthIsBestEffort ==
    HealthAnswered =>
        /\ health.status = "healthy"
        /\ \A s \in ServiceSet :
              /\ health.dependencies[s] = OwnStatus(s)
              /\ health.dependencies[s] # "unknown"
        /\ health.pinged = SelectSeq(Services, LAMBDA s : s \in endpoints)

\* The first ping raises, the second finds a failing service, the third a
\* healthy one, and the fourth service has no endpoint.
C20_Witness ==
    /\ HealthAnswered
    /\ endpoints = ServiceSet \ {"division-service"}
    /\ pings["addition-service"].exc = "ConnectionError"
    /\ pings["subtraction-service"].status = 503
    /\ health.dependencies["addition-service"] = "unreachable"
    /\ health.dependencies["subtraction-service"] = "unhealthy"
    /\ health.dependencies["multiplication-service"] = "healthy"
    /\ health.dependencies["division-service"] = "not_configured"
    /\ health.pinged = <<"addition-service", "subtraction-service", "multiplication-service">>

=============================================================================
